---- MODULE Spec2Model ----
(***************************************************************************)
(* discord-notify daemon: the request coordinator (PendingManager), the    *)
(* IPC transport (Server) and the reply router (DiscordHandler), modelled  *)
(* as one state machine.  Every action is one turn of the daemon's event   *)
(* loop: a handler runs from the event that starts it to its first await   *)
(* (or to its end), so handlers interleave only at their awaits.           *)
(***************************************************************************)
EXTENDS Integers, Sequences, FiniteSets, Bags, TLC

(* ------------------------------ bounds -------------------------------- *)
\* CLI connections that may be opened (each submits one message)
MaxConn == 2
\* inbound Discord events (replies and button clicks) the router accepts
MaxHuman == 2
\* daemon restarts
MaxRestart == 1

\* lines without a handler a connection writes before its message
MaxBadLines == 2

\* timer callbacks scheduled per request, those that have run included, when
\* the coordinator is driven alone
MaxArmed == 2

(* ------------------------- program constants -------------------------- *)
\* DEFAULT_CONFIG.timeouts.defaultAsk
DefaultAsk == 300000

\* DEFAULT_CONFIG.timeouts.maxAsk
MaxAsk == 3600000

(* ------------------------------ domains ------------------------------- *)
Conns == 1..MaxConn
\* request identifiers: randomUUID() is modelled as the next unused number
Ids == 1..MaxConn
\* "no request" (undefined) and an identifier no request ever carries
NoId == 0
\* a Discord message identifier that is no notification of the daemon
StrangerRef == 0
\* texts of free-text replies
Texts == {"a"}
\* the Ask messages submitted: options (<< >> is none), explicit timeout
\* (0 is none), noWait, and whether sessionInfo carries a sessionId
AskInputs ==
  { [options |-> <<"Yes", "No">>, timeout |-> 0, noWait |-> FALSE, hasSession |-> TRUE],
    [options |-> << >>, timeout |-> 0, noWait |-> TRUE, hasSession |-> FALSE] }
\* the Send messages submitted: whether sessionInfo carries a sessionId
SendInputs == {FALSE}
\* senders of a Discord message: the configured user in a DM, the same user
\* outside a DM, another account, and a bot
Senders == {"user", "guild", "other", "bot"}

EmptyMap == [x \in {} |-> NoId]
Put(f, k, v) == [x \in DOMAIN f \cup {k} |-> IF x = k THEN v ELSE f[x]]
Del(f, k) == [x \in DOMAIN f \ {k} |-> f[x]]

\* a daemon -> client record of the wire protocol
Msg(t, id, response, ref, code) ==
  [type |-> t, requestId |-> id, response |-> response, discordMessageId |-> ref,
   code |-> code]

\* no inbound Discord event
NoEv == [kind |-> "none", ref |-> StrangerRef, index |-> 0, sender |-> "user"]

VARIABLES
  requests,          \* pendingStore.requests: id -> request
  responses,         \* pendingStore.responses: id -> response
  messageToRequest,  \* sessionStore.messageToRequest: ref -> id
  requestToTerminal, \* sessionStore.requestToTerminal: id -> terminal info
  timers,            \* PendingManager.timers: the ids that have an entry
  armed,             \* id -> number of scheduled, uncleared setTimeout callbacks
  diskPending,       \* pending.json
  diskSessions,      \* sessions.json
  emitted,           \* id -> the 'response' / 'timeout' events emitted, in order
  clients,           \* Server.clients: open connection -> client.requestId
  out,               \* connection -> the messages written to it, in order
  pc,                \* connection -> position of its message handler
  creq,              \* connection -> the request its handler created
  cref,              \* connection -> the Discord message posted for it
  posted,            \* Discord: the notifications posted, ref -> request id
  inflight,          \* bag of reply handlers suspended at an await
  nextId,            \* next unused request id
  human,             \* inbound Discord events accepted so far
  restarts,          \* daemon restarts so far
  cancelled,         \* ids cleanup() has been called for
  attachedAt,        \* id -> events emitted for id before its ref was attached (-1: not attached)
  lastEv,            \* the inbound Discord event this step handled (NoEv for other steps)
  cli                \* an ask CLI process: askCommand and its SocketClient

daemonVars == <<requests, responses, messageToRequest, requestToTerminal, timers, armed,
                diskPending, diskSessions, emitted, clients, out, pc, creq, cref, posted,
                inflight, nextId, human, restarts, cancelled, attachedAt, lastEv>>

vars == <<daemonVars, cli>>

(* ------------------- the daemon's state as one value ------------------ *)
\* The coordinator and transport operations below are functions from this
\* record to this record, so that a handler is the composition of the calls
\* it makes.
Cur ==
  [requests |-> requests, responses |-> responses,
   messageToRequest |-> messageToRequest, requestToTerminal |-> requestToTerminal,
   timers |-> timers, armed |-> armed,
   diskPending |-> diskPending, diskSessions |-> diskSessions,
   emitted |-> emitted, clients |-> clients, out |-> out]

Commit(s0) ==
  \E s \in {s0} :
    /\ requests' = s.requests
    /\ responses' = s.responses
    /\ messageToRequest' = s.messageToRequest
    /\ requestToTerminal' = s.requestToTerminal
    /\ timers' = s.timers
    /\ armed' = s.armed
    /\ diskPending' = s.diskPending
    /\ diskSessions' = s.diskSessions
    /\ emitted' = s.emitted
    /\ clients' = s.clients
    /\ out' = s.out

(* ------------------------------ Server -------------------------------- *)
\* Server.send: socket.write; a closed socket receives nothing
send(s, c, m) ==
  IF c \in DOMAIN s.clients THEN [s EXCEPT !.out[c] = Append(@, m)] ELSE s

\* notifyClient with the requestId comparison lost: the first client that
\* waits for any request
notifyClient_anyWaiting(s, id, m) ==
  LET hit == {c \in DOMAIN s.clients : s.clients[c] # NoId}
  IN IF hit = {} THEN s
     ELSE send(s, CHOOSE c \in hit : \A d \in hit : c <= d, m)

\* Server.notifyClient: the first client whose requestId matches
notifyClient(s, id, m) ==
  LET hit == {c \in DOMAIN s.clients : s.clients[c] = id}
  IN IF hit = {} THEN s
     ELSE send(s, CHOOSE c \in hit : \A d \in hit : c <= d, m)

\* EventEmitter.emit with the listeners Server's constructor registers
emit(s, ev, id, text) ==
  notifyClient([s EXCEPT !.emitted[id] = Append(@, [ev |-> ev, response |-> text])],
               id, Msg(ev, id, text, StrangerRef, ""))

(* -------------------------- PendingManager ---------------------------- *)
\* savePendingStore that writes nothing
savePendingStore_skip(s) == s

savePendingStore(s) ==
  [s EXCEPT !.diskPending = [requests |-> s.requests, responses |-> s.responses]]

\* saveSessionStore that writes nothing
saveSessionStore_skip(s) == s

saveSessionStore(s) ==
  [s EXCEPT !.diskSessions = [messageToRequest |-> s.messageToRequest,
                              requestToTerminal |-> s.requestToTerminal]]

createRequest(s, id, type, hasSession, o) ==
  LET request == [type |-> type, options |-> o.options, hasSession |-> hasSession,
                  discordMessageId |-> StrangerRef,
                  timeout |-> IF o.timeout # 0 THEN o.timeout ELSE DefaultAsk,
                  noWait |-> o.noWait]
      s1 == savePendingStore([s EXCEPT !.requests = Put(@, id, request)])
  IN saveSessionStore([s1 EXCEPT !.requestToTerminal =
                         Put(@, id, [hasSession |-> hasSession, active |-> TRUE])])

startTimeout(s, id) ==
  [s EXCEPT !.armed[id] = @ + 1, !.timers = @ \cup {id}]

clearTimeout(s, id) ==
  IF id \in s.timers
  THEN [s EXCEPT !.armed[id] = @ - 1, !.timers = @ \ {id}]
  ELSE s

\* setDiscordMessageId that never starts the timeout
setDiscordMessageId_noTimer(s, id, ref) ==
  IF id \in DOMAIN s.requests
  THEN LET s1 == savePendingStore([s EXCEPT !.requests[id].discordMessageId = ref])
       IN saveSessionStore([s1 EXCEPT !.messageToRequest = Put(@, ref, id)])
  ELSE s

setDiscordMessageId(s, id, ref) ==
  IF id \in DOMAIN s.requests
  THEN LET s1 == savePendingStore([s EXCEPT !.requests[id].discordMessageId = ref])
           s2 == saveSessionStore([s1 EXCEPT !.messageToRequest = Put(@, ref, id)])
       IN IF s2.requests[id].type = "ask" /\ ~s2.requests[id].noWait
          THEN startTimeout(s2, id)
          ELSE s2
  ELSE s

\* the id of the request found, NoId for undefined
getRequestByMessageId(s, ref) ==
  IF ref \in DOMAIN s.messageToRequest /\ s.messageToRequest[ref] \in DOMAIN s.requests
  THEN s.messageToRequest[ref]
  ELSE NoId

\* setResponse without its clearTimeout call
setResponse_keepTimer(s, id, text) ==
  LET s2 == savePendingStore([s EXCEPT !.responses =
                                Put(@, id, [status |-> "answered", response |-> text])])
  IN emit(s2, "response", id, text)

setResponse(s, id, text) ==
  LET s1 == clearTimeout(s, id)
      s2 == savePendingStore([s1 EXCEPT !.responses =
                                Put(@, id, [status |-> "answered", response |-> text])])
  IN emit(s2, "response", id, text)

handleTimeout(s, id) ==
  LET s1 == [s EXCEPT !.timers = @ \ {id}]
      s2 == savePendingStore([s1 EXCEPT !.responses =
                                Put(@, id, [status |-> "timeout", response |-> ""])])
  IN emit(s2, "timeout", id, "")

updateTerminalActive(s, id, active) ==
  IF id \in DOMAIN s.requestToTerminal
  THEN saveSessionStore([s EXCEPT !.requestToTerminal[id].active = active])
  ELSE s

\* cleanup without the delete of the reference index entry
cleanup_keepsIndex(s, id) ==
  LET s1 == clearTimeout(s, id)
      s3 == [s1 EXCEPT !.requests = Del(@, id), !.responses = Del(@, id),
                       !.requestToTerminal = Del(@, id)]
  IN saveSessionStore(savePendingStore(s3))

\* cleanup that deletes the response and the terminal binding but leaves the
\* request and its index entry
cleanup_keepRequest(s, id) ==
  LET s1 == clearTimeout(s, id)
      s3 == [s1 EXCEPT !.responses = Del(@, id), !.requestToTerminal = Del(@, id)]
  IN saveSessionStore(savePendingStore(s3))

cleanup(s, id) ==
  LET s1 == clearTimeout(s, id)
      ref == IF id \in DOMAIN s1.requests THEN s1.requests[id].discordMessageId
             ELSE StrangerRef
      s2 == IF ref # StrangerRef
            THEN [s1 EXCEPT !.messageToRequest = Del(@, ref)]
            ELSE s1
      s3 == [s2 EXCEPT !.requests = Del(@, id), !.responses = Del(@, id),
                       !.requestToTerminal = Del(@, id)]
  IN saveSessionStore(savePendingStore(s3))

(* -------------------------- DiscordHandler ---------------------------- *)
\* processResponse that does not consult isProcessAlive
processResponse_alwaysResumes(s, id, text, alive) ==
  LET dead == id \in DOMAIN s.requestToTerminal
      s1 == IF dead THEN updateTerminalActive(s, id, FALSE) ELSE s
      suspend == dead /\ s.requestToTerminal[id].hasSession
  IN [state |-> IF suspend THEN s1 ELSE setResponse(s1, id, text),
      suspend |-> suspend]

\* DiscordHandler.processResponse up to its await (or to its end): the new
\* state, and whether the handler is now suspended in resumeAndInject.
\* alive is the outcome of isProcessAlive(terminal.pid).
processResponse(s, id, text, alive) ==
  LET dead == id \in DOMAIN s.requestToTerminal /\ ~alive
      s1 == IF dead THEN updateTerminalActive(s, id, FALSE) ELSE s
      suspend == dead /\ s.requestToTerminal[id].hasSession
  IN [state |-> IF suspend THEN s1 ELSE setResponse(s1, id, text),
      suspend |-> suspend]

Handler(stage, id, text) == [stage |-> stage, id |-> id, text |-> text]

\* the handler bag after processResponse
Suspend(bag, r, id, text) ==
  IF r.suspend THEN bag (+) SetToBag({Handler("resume", id, text)}) ELSE bag

\* handleMessage that takes a reply it cannot resolve as the answer to the
\* oldest stored request
handleMessage_anyPending(s, ref, sender) ==
  IF sender # "user" THEN NoId
  ELSE IF getRequestByMessageId(s, ref) # NoId THEN getRequestByMessageId(s, ref)
  ELSE IF DOMAIN s.requests = {} THEN NoId
  ELSE CHOOSE i \in DOMAIN s.requests : \A j \in DOMAIN s.requests : i <= j

\* handleMessage without the checks of the author and the channel
handleMessage_anySender(s, ref, sender) == getRequestByMessageId(s, ref)

\* DiscordHandler.handleMessage for a reply to message ref: the request it
\* resolves to, NoId when the message is ignored
handleMessage(s, ref, sender) ==
  IF sender = "bot" THEN NoId
  ELSE IF sender = "guild" THEN NoId
  ELSE IF sender # "user" THEN NoId
  ELSE getRequestByMessageId(s, ref)

\* decimal text of a small number (template literal `${index}`)
Digits == <<"0", "1", "2", "3", "4", "5", "6", "7", "8", "9">>
toString(n) == <<Digits[n + 1]>>

\* the value of a decimal digit character, -1 for any other character
digitValue(ch) ==
  IF \E d \in DOMAIN Digits : Digits[d] = ch
  THEN (CHOOSE d \in DOMAIN Digits : Digits[d] = ch) - 1
  ELSE -1

\* the value of the longest prefix of digits of str, having read acc so far
RECURSIVE digitPrefix(_, _)
digitPrefix(str, acc) ==
  IF str = << >> \/ digitValue(Head(str)) < 0 THEN acc
  ELSE digitPrefix(Tail(str), 10 * acc + digitValue(Head(str)))

RECURSIVE trimStart(_)
trimStart(str) ==
  IF str # << >> /\ Head(str) = " " THEN trimStart(Tail(str)) ELSE str

\* parseInt(str, 10): leading white space is skipped, a sign is taken, then
\* the longest prefix of digits is read and the rest is ignored; NaN when
\* there is no digit to read
parseInt(str) ==
  LET t == trimStart(str)
      neg == t # << >> /\ Head(t) = "-"
      u == IF t # << >> /\ Head(t) \in {"-", "+"} THEN Tail(t) ELSE t
  IN IF u = << >> \/ digitValue(Head(u)) < 0
     THEN [nan |-> TRUE, n |-> 0]
     ELSE [nan |-> FALSE, n |-> IF neg THEN 0 - digitPrefix(u, 0) ELSE digitPrefix(u, 0)]

\* the customId sendMessage gives button index of request id,
\* "req:<id>:<index>", as the parts split(":") finds in it
customId(id, index) == <<"req", id, toString(index)>>

\* DiscordHandler.handleButton up to interaction.update: the answer the
\* click stands for, "" when the click is ignored
handleButton(s, parts) ==
  IF parts[1] # "req" \/ Len(parts) # 3 THEN ""
  ELSE LET requestId == parts[2]
           optionIndex == parseInt(parts[3])
       IN IF requestId \notin DOMAIN s.requests THEN ""
          ELSE IF s.requests[requestId].options = << >> THEN ""
          ELSE IF optionIndex.nan THEN ""
          ELSE IF optionIndex.n + 1 \notin DOMAIN s.requests[requestId].options THEN ""
          ELSE s.requests[requestId].options[optionIndex.n + 1]

(* ------------------------------- Init --------------------------------- *)
DaemonInit ==
  /\ requests = EmptyMap
  /\ responses = EmptyMap
  /\ messageToRequest = EmptyMap
  /\ requestToTerminal = EmptyMap
  /\ timers = {}
  /\ armed = [i \in Ids |-> 0]
  /\ diskPending = [requests |-> EmptyMap, responses |-> EmptyMap]
  /\ diskSessions = [messageToRequest |-> EmptyMap, requestToTerminal |-> EmptyMap]
  /\ emitted = [i \in Ids |-> << >>]
  /\ clients = EmptyMap
  /\ out = [c \in Conns |-> << >>]
  /\ pc = [c \in Conns |-> "new"]
  /\ creq = [c \in Conns |-> NoId]
  /\ cref = [c \in Conns |-> StrangerRef]
  /\ posted = << >>
  /\ inflight = EmptyBag
  /\ nextId = 1
  /\ human = 0
  /\ restarts = 0
  /\ cancelled = {}
  /\ attachedAt = [i \in Ids |-> -1]
  /\ lastEv = NoEv

(* ------------------------------ ask CLI ------------------------------- *)
\* records of one socket stream taken into account on the CLI side
MaxWire == 3

\* no process
CliOff ==
  [pc |-> "off", noWait |-> FALSE, connects |-> FALSE, wire |-> << >>, rd |-> 0,
   handlers |-> EmptyMap, timers |-> {}, exit |-> -1, cause |-> "none",
   printedId |-> NoId, printedText |-> ""]

Init == DaemonInit /\ cli = CliOff

\* the records the daemon writes to an Ask connection
WireRecords ==
  { Msg("ack", 1, "", 1, ""), Msg("response", 1, "a", StrangerRef, ""),
    Msg("timeout", 1, "", StrangerRef, ""),
    Msg("error", NoId, "", StrangerRef, "INTERNAL_ERROR") }

Count(w, type) == Cardinality({i \in DOMAIN w : w[i].type = type})

\* what the daemon writes to the connection of an Ask over its life: one
\* ack or the error of a failed delivery, responses around it, and at most
\* one timeout, which comes after the ack with no response in between (a
\* response clears the timer the ack's step armed)
DaemonStream(w) ==
  /\ Count(w, "ack") + Count(w, "error") <= 1
  /\ Count(w, "timeout") <= 1
  /\ \A i \in DOMAIN w :
       w[i].type = "timeout"
         => \E j \in 1..(i - 1) :
              /\ w[j].type = "ack"
              /\ \A k \in (j + 1)..(i - 1) : w[k].type # "response"

Streams ==
  {w \in UNION {[1..n -> WireRecords] : n \in 0..MaxWire} : DaemonStream(w)}

\* SocketClient.waitFor's cleanup closure
waitForCleanup(p, typeList) ==
  [p EXCEPT !.handlers =
     [ty \in DOMAIN p.handlers \ (typeList \cup {"error"}) |-> p.handlers[ty]]]

\* the message types the k-th waitFor call of askCommand waits for
TypeList(k) == IF k = 1 THEN {"ack"} ELSE {"response", "timeout", "error"}

\* SocketClient.waitFor (k-th call): a resolving handler per type, then the
\* rejecting handler for "error", then the ten-minute timer
waitFor(p, k) ==
  [p EXCEPT !.handlers =
              [ty \in DOMAIN p.handlers \cup TypeList(k) \cup {"error"} |->
                 IF ty = "error" THEN [k |-> k, kind |-> "reject"]
                 ELSE IF ty \in TypeList(k) THEN [k |-> k, kind |-> "resolve"]
                 ELSE p.handlers[ty]],
            !.timers = @ \cup {k}]

\* process.exit(code)
exit(p, code, cause) == [p EXCEPT !.pc = "exited", !.exit = code, !.cause = cause]

\* the waitFor call askCommand is suspended in
Awaited(p) == IF p.pc = "waitAck" THEN 1 ELSE IF p.pc = "waitResult" THEN 2 ELSE 0

\* askCommand's exit for the result of its second waitFor
finish_timeoutOk(p, result) ==
  IF result.type = "response"
  THEN exit([p EXCEPT !.printedText = result.response], 0, "response")
  ELSE IF result.type = "timeout" THEN exit(p, 0, "timeout")
  ELSE exit(p, 1, "error")

finish(p, result) ==
  IF result.type = "response"
  THEN exit([p EXCEPT !.printedText = result.response], 0, "response")
  ELSE IF result.type = "timeout" THEN exit(p, 1, "timeout")
  ELSE exit(p, 1, "error")

\* askCommand resumes from its await: settled is how the awaited promise
\* was settled ("resolve" with msg, "reject" with cause)
askCommand(p, settled) ==
  IF settled.kind = "reject" THEN exit(p, 1, settled.cause)
  ELSE IF p.pc = "waitAck"
       THEN IF p.noWait
            THEN exit([p EXCEPT !.printedId = settled.msg.requestId], 0, "ack")
            ELSE [waitFor(p, 2) EXCEPT !.pc = "waitResult"]
       ELSE finish(p, settled.msg)

NotSettled == [kind |-> "none", msg |-> Msg("none", NoId, "", StrangerRef, ""),
               cause |-> "none"]

\* SocketClient.handleMessage for one record: the handler registered for its
\* type runs; r.settled is how the awaited promise stands in this turn
clientHandleMessage(r, msg) ==
  IF msg.type \notin DOMAIN r.p.handlers THEN r
  ELSE LET h == r.p.handlers[msg.type]
           p1 == waitForCleanup(r.p, TypeList(h.k))
       IN [p |-> p1,
           settled |-> IF r.settled.kind # "none" \/ h.k # Awaited(r.p) THEN r.settled
                       ELSE [kind |-> h.kind, msg |-> msg, cause |-> "error"]]

\* the socket's 'data' handler for a chunk that completes the records
\* from + 1 .. to, in order
RECURSIVE dataLoop(_, _, _)
dataLoop(r, from, to) ==
  IF from >= to THEN r
  ELSE dataLoop(clientHandleMessage(r, r.p.wire[from + 1]), from + 1, to)

\* one turn of the CLI's event loop for a chunk of n records: the data
\* handler runs over the whole chunk, then askCommand resumes if its promise
\* was settled
onData(p, n) ==
  LET r == dataLoop([p |-> p, settled |-> NotSettled], p.rd, p.rd + n)
      p1 == [r.p EXCEPT !.rd = p.rd + n]
  IN IF r.settled.kind = "none" THEN p1 ELSE askCommand(p1, r.settled)

\* the timer callback without its reject
onCeiling_cleanupOnly(p, k) ==
  [waitForCleanup(p, TypeList(k)) EXCEPT !.timers = @ \ {k}]

\* the ten-minute timer of the k-th waitFor: cleanup, then reject
onCeiling(p, k) ==
  LET p1 == [waitForCleanup(p, TypeList(k)) EXCEPT !.timers = @ \ {k}]
  IN IF Awaited(p) = k
     THEN askCommand(p1, [kind |-> "reject", msg |-> NotSettled.msg, cause |-> "ceiling"])
     ELSE p1

\* askCommand up to its first waitFor: connect, send the Ask, wait for the ack
connect(p) ==
  IF p.connects
  THEN [waitFor(p, 1) EXCEPT !.pc = "waitAck"]
  ELSE exit(p, 1, "connect")

\* an ask CLI is started: wait mode or noWait, a daemon that can be reached
\* or not, and what that daemon will write to the connection
CliInit ==
  /\ DaemonInit
  /\ \E nw \in BOOLEAN, ok \in BOOLEAN, w \in Streams :
       cli = [CliOff EXCEPT !.pc = "connect", !.noWait = nw, !.connects = ok,
                            !.wire = IF ok THEN w ELSE << >>]

CliConnect ==
  /\ cli.pc = "connect"
  /\ cli' = connect(cli)
  /\ UNCHANGED daemonVars

\* the socket delivers the next n records in one read
CliData(n) ==
  /\ cli.pc \in {"waitAck", "waitResult"}
  /\ cli.rd + n <= Len(cli.wire)
  /\ cli' = onData(cli, n)
  /\ UNCHANGED daemonVars

\* the timers run in the order they were set (same delay)
CliCeiling(k) ==
  /\ cli.pc \in {"waitAck", "waitResult"}
  /\ k \in cli.timers
  /\ \A j \in cli.timers : k <= j
  /\ cli' = onCeiling(cli, k)
  /\ UNCHANGED daemonVars

CliNext ==
  \/ CliConnect
  \/ \E n \in 1..MaxWire : CliData(n)
  \/ \E k \in 1..2 : CliCeiling(k)

CliSpec == CliInit /\ [][CliNext]_vars

\* the CLI's event loop runs its pending connect callback and its timers
CliFairness ==
  /\ WF_vars(CliConnect)
  /\ \A k \in 1..2 : WF_vars(CliCeiling(k))

CliFairSpec == CliInit /\ [][CliNext]_vars /\ CliFairness

(* ------------------------- IPC: client side --------------------------- *)
\* connections are opened in index order (they are interchangeable)
CanOpen(c) == pc[c] = "new" /\ (IF c = 1 THEN TRUE ELSE pc[c - 1] # "new")

\* Server.handleConnection: the socket joins Server.clients
handleConnection(s, c) == [s EXCEPT !.clients = Put(@, c, NoId)]

\* handleSend that binds the connection to the request as handleAsk does
handleSend_routes(s, c, id, hasSession) ==
  LET s1 == createRequest(s, id, "send", hasSession,
                          [options |-> << >>, timeout |-> 0, noWait |-> TRUE])
  IN IF c \in DOMAIN s1.clients THEN [s1 EXCEPT !.clients[c] = id] ELSE s1

\* Server.handleSend up to its await of sendMessage
handleSend(s, c, id, hasSession) ==
  createRequest(s, id, "send", hasSession,
                [options |-> << >>, timeout |-> 0, noWait |-> TRUE])

\* Server.handleAsk up to its await of sendMessage
handleAsk(s, c, id, hasSession, o) ==
  LET s1 == createRequest(s, id, "ask", hasSession, o)
  IN IF c \in DOMAIN s1.clients THEN [s1 EXCEPT !.clients[c] = id] ELSE s1

\* handleCancel that reports an id without a request as an error
handleCancel_notFound(s, c, id) ==
  IF id \in DOMAIN s.requests
  THEN send(cleanup(s, id), c, Msg("ack", id, "", StrangerRef, ""))
  ELSE send(s, c, Msg("error", id, "", StrangerRef, "NOT_FOUND"))

\* Server.handleCancel
handleCancel(s, c, id) ==
  send(cleanup(s, id), c, Msg("ack", id, "", StrangerRef, ""))

\* the rest of handleSend / handleAsk once sendMessage has returned ref
afterSendMessage(s, c, id, ref) ==
  send(setDiscordMessageId(s, id, ref), c, Msg("ack", id, "", ref, ""))

\* the catch clause followed by an ack for the request
internalError_thenAck(s, c) ==
  send(send(s, c, Msg("error", NoId, "", StrangerRef, "INTERNAL_ERROR")), c,
       Msg("ack", creq[c], "", StrangerRef, ""))

\* the catch clause with the request rolled back
internalError_dropsRequest(s, c) ==
  send(cleanup(s, creq[c]), c, Msg("error", NoId, "", StrangerRef, "INTERNAL_ERROR"))

\* Server.handleMessage's catch clause, reached when sendMessage rejects
internalError(s, c) ==
  send(s, c, Msg("error", NoId, "", StrangerRef, "INTERNAL_ERROR"))

\* Server.handleStatus: an error for an unknown id, nothing otherwise
handleStatus(s, c, id) ==
  IF id \notin DOMAIN s.requests
  THEN send(s, c, Msg("error", id, "", StrangerRef, "NOT_FOUND"))
  ELSE s

\* the lines Server.handleMessage does not hand to a handler's body:
\* text that is not JSON, JSON whose type is none of the four, and a
\* status or cancel message without data (data.requestId throws)
BadLines == {"notJson", "unknownType", "noData"}

\* Server.handleMessage for such a line, with the socket dropped afterwards
serverHandleMessage_closes(s, c, line) ==
  [send(s, c, Msg("error", NoId, "", StrangerRef, "PARSE_ERROR"))
     EXCEPT !.clients = Del(@, c)]

\* Server.handleMessage for such a line
serverHandleMessage(s, c, line) ==
  IF line = "notJson"
  THEN send(s, c, Msg("error", NoId, "", StrangerRef, "PARSE_ERROR"))
  ELSE IF line = "unknownType"
  THEN send(s, c, Msg("error", NoId, "", StrangerRef, "UNKNOWN_TYPE"))
  ELSE internalError(s, c)

\* a CLI connects and submits a Send
ClientSend(c, hasSession) ==
  /\ CanOpen(c)
  /\ Commit(handleSend(handleConnection(Cur, c), c, nextId, hasSession))
  /\ pc' = [pc EXCEPT ![c] = "sending"]
  /\ creq' = [creq EXCEPT ![c] = nextId]
  /\ nextId' = nextId + 1
  /\ lastEv' = NoEv
  /\ UNCHANGED cli
  /\ UNCHANGED <<cref, posted, inflight, human, restarts, cancelled, attachedAt>>

\* a CLI connects and submits an Ask
ClientAsk(c, hasSession, o) ==
  /\ CanOpen(c)
  /\ Commit(handleAsk(handleConnection(Cur, c), c, nextId, hasSession, o))
  /\ pc' = [pc EXCEPT ![c] = "sending"]
  /\ creq' = [creq EXCEPT ![c] = nextId]
  /\ nextId' = nextId + 1
  /\ lastEv' = NoEv
  /\ UNCHANGED cli
  /\ UNCHANGED <<cref, posted, inflight, human, restarts, cancelled, attachedAt>>

\* a CLI connects and submits a Cancel of request id
ClientCancel(c, id) ==
  /\ CanOpen(c)
  /\ Commit(handleCancel(handleConnection(Cur, c), c, id))
  /\ pc' = [pc EXCEPT ![c] = "done"]
  /\ cancelled' = cancelled \cup {id}
  /\ lastEv' = NoEv
  /\ UNCHANGED cli
  /\ UNCHANGED <<creq, cref, posted, inflight, nextId, human, restarts, attachedAt>>

\* a CLI connects and submits a Status for request id
ClientStatus(c, id) ==
  /\ CanOpen(c)
  /\ Commit(handleStatus(handleConnection(Cur, c), c, id))
  /\ pc' = [pc EXCEPT ![c] = "status"]
  /\ lastEv' = NoEv
  /\ UNCHANGED cli
  /\ UNCHANGED <<creq, cref, posted, inflight, nextId, human, restarts, cancelled,
                 attachedAt>>

\* a client writes a line that reaches no handler's body; the connection
\* can still submit its message afterwards
ClientBadLine(c, line) ==
  /\ CanOpen(c)
  /\ Len(out[c]) < MaxBadLines
  /\ Commit(serverHandleMessage(handleConnection(Cur, c), c, line))
  /\ lastEv' = NoEv
  /\ UNCHANGED cli
  /\ UNCHANGED <<pc, creq, cref, posted, inflight, nextId, human, restarts, cancelled,
                 attachedAt>>

\* Discord accepts the notification of c's request: the human can now see
\* it, reply to it and click its buttons; sendMessage has not returned yet
DiscordPost(c) ==
  /\ pc[c] = "sending"
  /\ posted' = Append(posted, [id |-> creq[c],
                               options |-> IF creq[c] \in DOMAIN requests
                                           THEN requests[creq[c]].options ELSE << >>])
  /\ cref' = [cref EXCEPT ![c] = Len(posted) + 1]
  /\ pc' = [pc EXCEPT ![c] = "posted"]
  /\ lastEv' = NoEv
  /\ UNCHANGED cli
  /\ UNCHANGED <<requests, responses, messageToRequest, requestToTerminal, timers,
                 armed, diskPending, diskSessions, emitted, clients, out, creq,
                 inflight, nextId, human, restarts, cancelled, attachedAt>>

\* sendMessage returns the posted message's id to handleSend / handleAsk
DeliverReturn(c) ==
  /\ pc[c] = "posted"
  /\ Commit(afterSendMessage(Cur, c, creq[c], cref[c]))
  /\ pc' = [pc EXCEPT ![c] = "done"]
  /\ attachedAt' = IF creq[c] \in DOMAIN requests
                   THEN [attachedAt EXCEPT ![creq[c]] = Len(emitted[creq[c]])]
                   ELSE attachedAt
  /\ lastEv' = NoEv
  /\ UNCHANGED cli
  /\ UNCHANGED <<creq, cref, posted, inflight, nextId, human, restarts, cancelled>>

\* sendMessage rejects: the external channel failed to deliver
DeliverFail(c) ==
  /\ pc[c] = "sending"
  /\ Commit(internalError(Cur, c))
  /\ pc' = [pc EXCEPT ![c] = "done"]
  /\ lastEv' = NoEv
  /\ UNCHANGED cli
  /\ UNCHANGED <<creq, cref, posted, inflight, nextId, human, restarts, cancelled,
                 attachedAt>>

\* a close handler that also cancels the request of the connection
ClientClose_cancels(c) ==
  /\ c \in DOMAIN clients
  /\ pc[c] = "done"
  /\ Commit([cleanup(Cur, clients[c]) EXCEPT !.clients = Del(@, c)])
  /\ lastEv' = NoEv
  /\ UNCHANGED cli
  /\ UNCHANGED <<pc, creq, cref, posted, inflight, nextId, human, restarts, cancelled,
                 attachedAt>>

\* the socket's 'close' (or 'error') event; a CLI is taken to stay connected
\* at least until the handler of its message has finished
ClientClose(c) ==
  /\ c \in DOMAIN clients
  /\ pc[c] = "done"
  /\ clients' = Del(clients, c)
  /\ lastEv' = NoEv
  /\ UNCHANGED cli
  /\ UNCHANGED <<requests, responses, messageToRequest, requestToTerminal, timers,
                 armed, diskPending, diskSessions, emitted, out, pc, creq, cref, posted,
                 inflight, nextId, human, restarts, cancelled, attachedAt>>

(* ------------------------ Discord: inbound events --------------------- *)
\* the messages a reply can refer to
Refs == {StrangerRef} \cup DOMAIN posted

\* the human (or someone else) replies to message ref with text;
\* alive is what isProcessAlive answers if it is asked
HumanReply(ref, text, sender, alive) ==
  /\ human < MaxHuman
  /\ lastEv' = [kind |-> "reply", ref |-> ref, index |-> 0, sender |-> sender]
  /\ UNCHANGED cli
  /\ LET id == handleMessage(Cur, ref, sender)
     IN IF id = NoId
        THEN UNCHANGED <<requests, responses, messageToRequest, requestToTerminal,
                         timers, armed, diskPending, diskSessions, emitted, clients,
                         out, inflight, human>>
        ELSE LET r == processResponse(Cur, id, text, alive)
             IN /\ Commit(r.state)
                /\ inflight' = Suspend(inflight, r, id, text)
                /\ human' = human + 1
  /\ UNCHANGED <<pc, creq, cref, posted, nextId, restarts, cancelled, attachedAt>>

\* the human clicks button index of the posted notification ref
HumanClick(ref, index) ==
  /\ human < MaxHuman
  /\ ref \in DOMAIN posted
  /\ index + 1 \in DOMAIN posted[ref].options
  /\ lastEv' = [kind |-> "click", ref |-> ref, index |-> index, sender |-> "user"]
  /\ UNCHANGED cli
  /\ LET response == handleButton(Cur, customId(posted[ref].id, index))
     IN IF response = ""
        THEN UNCHANGED <<inflight, human>>
        ELSE /\ inflight' = inflight (+) SetToBag({Handler("update", posted[ref].id, response)})
             /\ human' = human + 1
  /\ UNCHANGED <<requests, responses, messageToRequest, requestToTerminal, timers,
                 armed, diskPending, diskSessions, emitted, clients, out, pc, creq,
                 cref, posted, nextId, restarts, cancelled, attachedAt>>

\* account sender clicks button index of the posted notification ref;
\* handleButton does not read interaction.user
ButtonClick(ref, index, sender) ==
  /\ human < MaxHuman
  /\ ref \in DOMAIN posted
  /\ index + 1 \in DOMAIN posted[ref].options
  /\ lastEv' = [kind |-> "click", ref |-> ref, index |-> index, sender |-> sender]
  /\ UNCHANGED cli
  /\ LET response == handleButton(Cur, customId(posted[ref].id, index))
     IN IF response = ""
        THEN UNCHANGED <<inflight, human>>
        ELSE /\ inflight' = inflight (+) SetToBag({Handler("update", posted[ref].id, response)})
             /\ human' = human + 1
  /\ UNCHANGED <<requests, responses, messageToRequest, requestToTerminal, timers,
                 armed, diskPending, diskSessions, emitted, clients, out, pc, creq,
                 cref, posted, nextId, restarts, cancelled, attachedAt>>

\* index parts of the tokens of button interactions
IndexTexts == {<<"1">>, <<"2">>, <<"1", "x">>, <<"-", "1">>, <<"x">>, << >>}

\* tokens of button interactions, as split(":") finds their parts
Tokens ==
  {<<"req", id, str>> : id \in Ids, str \in IndexTexts}
    \cup {<<"btn", 1, <<"0">>>>, <<"req", 1>>, <<"req", 1, <<"0">>, <<"0">>>>}

\* a button interaction arrives whose customId has the parts given
ButtonInteraction(parts) ==
  /\ human < MaxHuman
  /\ lastEv' = [kind |-> "token", ref |-> StrangerRef, index |-> 0, sender |-> "user"]
  /\ UNCHANGED cli
  /\ LET response == handleButton(Cur, parts)
     IN IF response = ""
        THEN UNCHANGED <<inflight, human>>
        ELSE /\ inflight' = inflight (+) SetToBag({Handler("update", parts[2], response)})
             /\ human' = human + 1
  /\ UNCHANGED <<requests, responses, messageToRequest, requestToTerminal, timers,
                 armed, diskPending, diskSessions, emitted, clients, out, pc, creq,
                 cref, posted, nextId, restarts, cancelled, attachedAt>>

\* interaction.update returns (or throws and is caught): handleButton goes on
\* to processResponse
UpdateReturn(h, alive) ==
  /\ BagIn(h, inflight)
  /\ h.stage = "update"
  /\ LET r == processResponse(Cur, h.id, h.text, alive)
     IN /\ Commit(r.state)
        /\ inflight' = Suspend(inflight (-) SetToBag({h}), r, h.id, h.text)
  /\ lastEv' = NoEv
  /\ UNCHANGED cli
  /\ UNCHANGED <<pc, creq, cref, posted, nextId, human, restarts, cancelled, attachedAt>>

\* resumeAndInject returns (it catches every error): processResponse goes on
\* to setResponse
ResumeReturn(h) ==
  /\ BagIn(h, inflight)
  /\ h.stage = "resume"
  /\ Commit(setResponse(Cur, h.id, h.text))
  /\ inflight' = inflight (-) SetToBag({h})
  /\ lastEv' = NoEv
  /\ UNCHANGED cli
  /\ UNCHANGED <<pc, creq, cref, posted, nextId, human, restarts, cancelled, attachedAt>>

(* ------------------------------- timers ------------------------------- *)
\* a scheduled setTimeout callback of startTimeout runs
onTimer(s, id) == handleTimeout([s EXCEPT !.armed[id] = @ - 1], id)

TimerFire(id) ==
  /\ armed[id] > 0
  /\ Commit(onTimer(Cur, id))
  /\ lastEv' = NoEv
  /\ UNCHANGED cli
  /\ UNCHANGED <<pc, creq, cref, posted, inflight, nextId, human, restarts, cancelled,
                 attachedAt>>

(* ------------------------------ restart ------------------------------- *)
\* PendingManager's constructor in a new daemon process: the stores are read
\* back from disk; timers, connections and suspended handlers are gone
loadStores(s) ==
  [s EXCEPT !.requests = s.diskPending.requests,
            !.responses = s.diskPending.responses,
            !.messageToRequest = s.diskSessions.messageToRequest,
            !.requestToTerminal = s.diskSessions.requestToTerminal,
            !.timers = {},
            !.armed = [i \in Ids |-> 0],
            !.clients = EmptyMap]

Restart ==
  /\ restarts < MaxRestart
  /\ restarts' = restarts + 1
  /\ Commit(loadStores(Cur))
  /\ pc' = [c \in Conns |-> IF pc[c] = "new" THEN "new" ELSE "done"]
  /\ inflight' = EmptyBag
  /\ lastEv' = NoEv
  /\ UNCHANGED cli
  /\ UNCHANGED <<creq, cref, posted, nextId, human, cancelled, attachedAt>>

\* resumeAndInject's spawn("kitty", ...) cannot start the program: the
\* ChildProcess emits 'error' after spawn has returned, outside the try block;
\* it has no 'error' listener, so the event is thrown as an uncaught
\* exception and the daemon process exits with its handlers, timers and
\* connections.  The daemon is taken to be started again (as in Restart).
SpawnError(h) ==
  /\ BagIn(h, inflight)
  /\ h.stage = "resume"
  /\ restarts < MaxRestart
  /\ restarts' = restarts + 1
  /\ Commit(loadStores(Cur))
  /\ pc' = [c \in Conns |-> IF pc[c] = "new" THEN "new" ELSE "done"]
  /\ inflight' = EmptyBag
  /\ lastEv' = NoEv
  /\ UNCHANGED cli
  /\ UNCHANGED <<creq, cref, posted, nextId, human, cancelled, attachedAt>>

\* what existsSync / readFileSync / JSON.parse find in place of a saved
\* document: no file, or text that does not parse (a save cut short)
File(state) == [file |-> state]
Damaged(doc) == "file" \in DOMAIN doc

\* PendingManager.loadPendingStore
loadPendingStore(doc) ==
  IF Damaged(doc) THEN [requests |-> EmptyMap, responses |-> EmptyMap] ELSE doc

\* PendingManager.loadSessionStore
loadSessionStore(doc) ==
  IF Damaged(doc) THEN [messageToRequest |-> EmptyMap, requestToTerminal |-> EmptyMap]
  ELSE doc

\* a constructor that leaves a store as the previous process had it when
\* its file is damaged
constructor_keepsMemory(s) ==
  [s EXCEPT !.requests = IF Damaged(s.diskPending) THEN @ ELSE s.diskPending.requests,
            !.responses = IF Damaged(s.diskPending) THEN @ ELSE s.diskPending.responses,
            !.messageToRequest = loadSessionStore(s.diskSessions).messageToRequest,
            !.requestToTerminal = loadSessionStore(s.diskSessions).requestToTerminal,
            !.timers = {},
            !.armed = [i \in Ids |-> 0],
            !.clients = EmptyMap]

\* PendingManager's constructor in a new daemon process, whatever the files
\* hold
constructor(s) ==
  [s EXCEPT !.requests = loadPendingStore(s.diskPending).requests,
            !.responses = loadPendingStore(s.diskPending).responses,
            !.messageToRequest = loadSessionStore(s.diskSessions).messageToRequest,
            !.requestToTerminal = loadSessionStore(s.diskSessions).requestToTerminal,
            !.timers = {},
            !.armed = [i \in Ids |-> 0],
            !.clients = EmptyMap]

\* the daemon stops, pending.json and sessions.json are left as pf and sf
\* ("saved": as last written), and the daemon is started again
DamagedRestart(pf, sf) ==
  /\ restarts < MaxRestart
  /\ restarts' = restarts + 1
  /\ Commit(constructor([Cur EXCEPT
                !.diskPending = IF pf = "saved" THEN @ ELSE File(pf),
                !.diskSessions = IF sf = "saved" THEN @ ELSE File(sf)]))
  /\ pc' = [c \in Conns |-> IF pc[c] = "new" THEN "new" ELSE "done"]
  /\ inflight' = EmptyBag
  /\ lastEv' = NoEv
  /\ UNCHANGED cli
  /\ UNCHANGED <<creq, cref, posted, nextId, human, cancelled, attachedAt>>

(* -------------------------------- Next -------------------------------- *)
Handlers == {Handler(st, i, x) : st \in {"update", "resume"}, i \in Ids,
                                 x \in Texts \cup {"Yes", "No"}}

Next ==
  \/ \E c \in Conns, hs \in SendInputs : ClientSend(c, hs)
  \/ \E c \in Conns, o \in AskInputs : ClientAsk(c, o.hasSession, o)
  \/ \E c \in Conns, id \in {NoId} \cup (1..(nextId - 1)) : ClientCancel(c, id)
  \/ \E c \in Conns : DiscordPost(c)
  \/ \E c \in Conns : DeliverReturn(c)
  \/ \E c \in Conns : DeliverFail(c)
  \/ \E c \in Conns : ClientClose(c)
  \/ \E ref \in Refs, x \in Texts, sd \in Senders, alive \in BOOLEAN :
        HumanReply(ref, x, sd, alive)
  \/ \E ref \in DOMAIN posted, index \in 0..1 : HumanClick(ref, index)
  \/ \E parts \in Tokens : ButtonInteraction(parts)
  \/ \E h \in Handlers, alive \in BOOLEAN : UpdateReturn(h, alive)
  \/ \E h \in Handlers : ResumeReturn(h)
  \/ \E h \in Handlers : SpawnError(h)
  \/ \E id \in Ids : TimerFire(id)
  \/ Restart

Spec == Init /\ [][Next]_vars

\* One run of the daemon (no restart) serving Ask and Cancel connections,
\* where every inbound Discord message is the authorized user's reply to a
\* notification
RunNext ==
  \/ \E c \in Conns, o \in AskInputs : ClientAsk(c, o.hasSession, o)
  \/ \E c \in Conns, id \in {NoId} \cup (1..(nextId - 1)) : ClientCancel(c, id)
  \/ \E c \in Conns : DiscordPost(c)
  \/ \E c \in Conns : DeliverReturn(c)
  \/ \E c \in Conns : DeliverFail(c)
  \/ \E c \in Conns : ClientClose(c)
  \/ \E ref \in DOMAIN posted, x \in Texts, alive \in BOOLEAN :
        HumanReply(ref, x, "user", alive)
  \/ \E ref \in DOMAIN posted, index \in 0..1 : HumanClick(ref, index)
  \/ \E h \in Handlers, alive \in BOOLEAN : UpdateReturn(h, alive)
  \/ \E h \in Handlers : ResumeReturn(h)
  \/ \E h \in Handlers : SpawnError(h)
  \/ \E id \in Ids : TimerFire(id)

\* What the event loop guarantees: a scheduled timer callback runs, a
\* pending await resumes, and the delivery call ends by posting or failing.
\* Clients and the human are under no obligation.
Fairness ==
  /\ \A id \in Ids : WF_vars(TimerFire(id))
  /\ \A c \in Conns : WF_vars(DeliverReturn(c))
  /\ \A c \in Conns : WF_vars(DiscordPost(c) \/ DeliverFail(c))
  /\ WF_vars(\E h \in Handlers, alive \in BOOLEAN : UpdateReturn(h, alive))
  /\ WF_vars(\E h \in Handlers : ResumeReturn(h))

FairSpec == Init /\ [][RunNext]_vars /\ Fairness

\* The transport alone: connections that write bad lines, Send, Ask, Cancel
\* and Status messages, the delivery call and the timers; nobody answers
IpcNext ==
  \/ \E c \in Conns, line \in BadLines : ClientBadLine(c, line)
  \/ \E c \in Conns, hs \in SendInputs : ClientSend(c, hs)
  \/ \E c \in Conns, o \in AskInputs : ClientAsk(c, o.hasSession, o)
  \/ \E c \in Conns, id \in {NoId} \cup (1..(nextId - 1)) : ClientCancel(c, id)
  \/ \E c \in Conns, id \in {NoId} \cup (1..(nextId - 1)) : ClientStatus(c, id)
  \/ \E c \in Conns : DiscordPost(c)
  \/ \E c \in Conns : DeliverReturn(c)
  \/ \E c \in Conns : DeliverFail(c)
  \/ \E c \in Conns : ClientClose(c)
  \/ \E id \in Ids : TimerFire(id)

IpcSpec == Init /\ [][IpcNext]_vars

(* ----------------- PendingManager through its public methods --------- *)
\* the message ids a caller passes to setDiscordMessageId
ApiRefs == 1..2

\* the call this step made, for setDiscordMessageId(id, ref)
AttachCall(id, ref) == [kind |-> "attach", ref |-> ref, index |-> id, sender |-> "user"]

ApiCreate(type, o) ==
  /\ nextId \in Ids
  /\ Commit(createRequest(Cur, nextId, type, o.hasSession, o))
  /\ nextId' = nextId + 1
  /\ lastEv' = NoEv
  /\ UNCHANGED cli
  /\ UNCHANGED <<pc, creq, cref, posted, inflight, human, restarts, cancelled,
                 attachedAt>>

ApiAttach(id, ref) ==
  /\ id < nextId
  /\ armed[id] + Cardinality({i \in DOMAIN emitted[id] : emitted[id][i].ev = "timeout"})
       < MaxArmed
  /\ Commit(setDiscordMessageId(Cur, id, ref))
  /\ attachedAt' = IF id \in DOMAIN requests /\ attachedAt[id] = -1
                   THEN [attachedAt EXCEPT ![id] = Len(emitted[id])]
                   ELSE attachedAt
  /\ lastEv' = AttachCall(id, ref)
  /\ UNCHANGED cli
  /\ UNCHANGED <<pc, creq, cref, posted, inflight, nextId, human, restarts, cancelled>>

ApiAnswer(id, x) ==
  /\ id < nextId
  /\ human < MaxHuman
  /\ human' = human + 1
  /\ Commit(setResponse(Cur, id, x))
  /\ lastEv' = NoEv
  /\ UNCHANGED cli
  /\ UNCHANGED <<pc, creq, cref, posted, inflight, nextId, restarts, cancelled,
                 attachedAt>>

ApiCancel(id) ==
  /\ id < nextId
  /\ Commit(cleanup(Cur, id))
  /\ cancelled' = cancelled \cup {id}
  /\ lastEv' = NoEv
  /\ UNCHANGED cli
  /\ UNCHANGED <<pc, creq, cref, posted, inflight, nextId, human, restarts, attachedAt>>

ApiNext ==
  \/ \E type \in {"ask", "send"}, o \in AskInputs : ApiCreate(type, o)
  \/ \E id \in Ids, ref \in ApiRefs : ApiAttach(id, ref)
  \/ \E id \in Ids, x \in Texts : ApiAnswer(id, x)
  \/ \E id \in Ids : ApiCancel(id)
  \/ \E id \in Ids : TimerFire(id)

ApiSpec == Init /\ [][ApiNext]_vars

(* ------------------- restarts that find damaged files ---------------- *)
\* what a starting daemon can find in place of each file
FileStates == {"saved", "missing", "unparsable"}

LoadNext ==
  \/ \E c \in Conns, o \in AskInputs : ClientAsk(c, o.hasSession, o)
  \/ \E c \in Conns, id \in {NoId} \cup (1..(nextId - 1)) : ClientCancel(c, id)
  \/ \E c \in Conns : DiscordPost(c)
  \/ \E c \in Conns : DeliverReturn(c)
  \/ \E ref \in DOMAIN posted, x \in Texts, alive \in BOOLEAN :
        HumanReply(ref, x, "user", alive)
  \/ \E h \in Handlers : ResumeReturn(h)
  \/ \E id \in Ids : TimerFire(id)
  \/ \E pf, sf \in FileStates : DamagedRestart(pf, sf)

LoadSpec == Init /\ [][LoadNext]_vars

(* ------------- a daemon that only other accounts write to ------------- *)
\* the daemon serves Asks while every inbound Discord message and button
\* interaction comes from an account other than the configured user
UnauthorizedNext ==
  \/ \E c \in Conns, o \in AskInputs : ClientAsk(c, o.hasSession, o)
  \/ \E c \in Conns : DiscordPost(c)
  \/ \E c \in Conns : DeliverReturn(c)
  \/ \E ref \in Refs, x \in Texts, sd \in Senders \ {"user"}, alive \in BOOLEAN :
        HumanReply(ref, x, sd, alive)
  \/ \E ref \in DOMAIN posted, index \in 0..1, sd \in Senders \ {"user"} :
        ButtonClick(ref, index, sd)
  \/ \E h \in Handlers, alive \in BOOLEAN : UpdateReturn(h, alive)
  \/ \E h \in Handlers : ResumeReturn(h)
  \/ \E id \in Ids : TimerFire(id)

UnauthorizedSpec == Init /\ [][UnauthorizedNext]_vars

(* --------------------- Asks with an explicit timeout ------------------ *)
\* the --timeout values of the ask command, in milliseconds: none given to
\* the daemon (0), one minute, the configured maximum, two hours
AskTimeouts == {0, 60000, MaxAsk, 7200000}

\* Ask messages that wait for their answer, one per timeout value
TimedAskInputs ==
  { [options |-> << >>, timeout |-> ms, noWait |-> FALSE, hasSession |-> FALSE] :
      ms \in AskTimeouts }

TimeoutNext ==
  \/ \E c \in Conns, o \in TimedAskInputs : ClientAsk(c, o.hasSession, o)
  \/ \E c \in Conns : DiscordPost(c)
  \/ \E c \in Conns : DeliverReturn(c)
  \/ \E c \in Conns : DeliverFail(c)
  \/ \E c \in Conns : ClientClose(c)
  \/ \E id \in Ids : TimerFire(id)

TimeoutSpec == Init /\ [][TimeoutNext]_vars

(* ====================================================================== *)
(*                               properties                               *)
(* ====================================================================== *)
TerminalStatus == {"answered", "timeout", "error"}
Terminal(id) == id \in DOMAIN responses /\ responses[id].status \in TerminalStatus

\* the four stores, their persisted copies and the timers
storeVars == <<requests, responses, messageToRequest, requestToTerminal,
               diskPending, diskSessions, timers, armed>>

TerminalTypes == {"response", "timeout", "error"}
TerminalCount(c) == Cardinality({i \in DOMAIN out[c] : out[c][i].type \in TerminalTypes})
EventCount(id, ev) == Cardinality({i \in DOMAIN emitted[id] : emitted[id][i].ev = ev})
Attached(id) == id \in DOMAIN requests /\ requests[id].discordMessageId # StrangerRef
WaitingAsk(id) ==
  id \in DOMAIN requests /\ requests[id].type = "ask" /\ ~requests[id].noWait

\* C1 (as claimed): once request id has a terminal response, no later step
\* that leaves a response for id in the store changes that response or emits
\* an event for id: the first terminal status wins.
C1_FirstTerminalWins ==
  [][\A id \in Ids :
       (Terminal(id) /\ id \in DOMAIN responses')
         => (responses'[id] = responses[id] /\ emitted'[id] = emitted[id])]_vars

\* C2 (as claimed): no connection is ever written more than one terminal
\* message (response, timeout or error).
C2_AtMostOneTerminalMessage == \A c \in Conns : TerminalCount(c) <= 1

\* C3 (as claimed): on every connection a response or timeout for a request
\* is preceded by the ack for that request, and no ack follows a terminal
\* message.
C3_AckPrecedesTerminal ==
  \A c \in Conns : \A i \in DOMAIN out[c] :
    /\ out[c][i].type \in {"response", "timeout"}
         => \E j \in 1..(i - 1) :
              out[c][j].type = "ack" /\ out[c][j].requestId = out[c][i].requestId
    /\ out[c][i].type \in TerminalTypes
         => \A j \in (i + 1)..Len(out[c]) : out[c][j].type # "ack"

\* the step calls setResponse(id, x): a reply or a click handler reaches the
\* end of processResponse
Answers(id, x) ==
  \/ /\ lastEv'.kind = "reply"
     /\ \E ref \in Refs, alive \in BOOLEAN :
           /\ handleMessage(Cur, ref, "user") = id
           /\ ~processResponse(Cur, id, x, alive).suspend
           /\ HumanReply(ref, x, "user", alive)
  \/ /\ BagIn(Handler("update", id, x), inflight)
     /\ \E alive \in BOOLEAN :
           /\ ~processResponse(Cur, id, x, alive).suspend
           /\ UpdateReturn(Handler("update", id, x), alive)
  \/ /\ BagIn(Handler("resume", id, x), inflight)
     /\ ResumeReturn(Handler("resume", id, x))

AnswerTexts == Texts \cup {"Yes", "No"}

\* C5: when the ref of request id was attached before any event for id and an
\* answer x is then recorded before the timer fired, that call emits exactly
\* one 'response' event, carrying x, and leaves no timer for id; and no
\* 'timeout' event for id is ever emitted afterwards.
C5_AnswerCancelsTimer ==
  /\ [][\A id \in Ids, x \in AnswerTexts :
          (attachedAt[id] = 0 /\ emitted[id] = << >> /\ Answers(id, x))
            => /\ emitted'[id] = <<[ev |-> "response", response |-> x]>>
               /\ id \notin timers'
               /\ armed'[id] = 0]_vars
  /\ [](\A id \in Ids :
          (attachedAt[id] = 0 /\ emitted[id] # << >> /\ emitted[id][1].ev = "response")
            => EventCount(id, "timeout") = 0)

\* C5 witness: a waiting Ask, attached and armed, was answered once
C5_Witness ==
  \E id \in Ids :
    /\ restarts = 0 /\ WaitingAsk(id) /\ attachedAt[id] = 0
    /\ emitted[id] = <<[ev |-> "response", response |-> "a"]>>
    /\ Terminal(id) /\ id \notin timers

\* C7 (as claimed): after a restart every attached, waiting Ask that has no
\* terminal status has a timer armed (or was resolved on load).
C7_PendingAskRearmedOnRestart ==
  restarts > 0 =>
    \A id \in Ids : (WaitingAsk(id) /\ Attached(id) /\ ~Terminal(id)) => id \in timers

\* C8: a reply whose replied-to message is not in the index, or whose index
\* entry points to a request that does not exist, changes no store, no
\* timer, no connection and no suspended handler and emits no event.
C8_UnknownReplyDropped ==
  [][(/\ lastEv'.kind = "reply"
      /\ IF lastEv'.ref \in DOMAIN messageToRequest
         THEN messageToRequest[lastEv'.ref] \notin DOMAIN requests
         ELSE TRUE)
       => UNCHANGED <<storeVars, emitted, out, clients, inflight>>]_vars

\* C8 witness: the authorized user's reply to an unknown message was handled
\* while an attached request was waiting for its answer
C8_Witness ==
  /\ lastEv.kind = "reply" /\ lastEv.sender = "user"
  /\ lastEv.ref \notin DOMAIN messageToRequest
  /\ \E id \in Ids : Attached(id) /\ ~Terminal(id)

\* C9: once cleanup(id) has run, a reply to the notification posted for id
\* and a click on one of its buttons change no store, no timer, no connection
\* and no suspended handler and emit no event.
C9_DroppedAfterCancel ==
  [][(/\ lastEv'.kind \in {"reply", "click"}
      /\ lastEv'.ref \in DOMAIN posted
      /\ posted[lastEv'.ref].id \in cancelled)
       => UNCHANGED <<storeVars, emitted, out, clients, inflight>>]_vars

\* C9 witness: the authorized user replied to a notification whose request
\* had its ref attached and was then cancelled
C9_Witness ==
  /\ lastEv.kind = "reply" /\ lastEv.sender = "user"
  /\ lastEv.ref \in DOMAIN posted
  /\ posted[lastEv.ref].id \in cancelled
  /\ attachedAt[posted[lastEv.ref].id] >= 0

\* C10: every response or timeout written to a connection carries the id of
\* the request that this connection submitted.
C10_OnlySubmitterNotified ==
  \A c \in Conns : \A i \in DOMAIN out[c] :
    out[c][i].type \in {"response", "timeout"}
      => (creq[c] # NoId /\ out[c][i].requestId = creq[c])

\* C10 witness: two connections wait for their own Asks and the one opened
\* later has received its response, the other nothing yet
C10_Witness ==
  \E c, d \in Conns :
    /\ d < c
    /\ c \in DOMAIN clients /\ d \in DOMAIN clients
    /\ clients[c] = creq[c] /\ clients[d] = creq[d]
    /\ creq[c] # NoId /\ creq[d] # NoId
    /\ \E i \in DOMAIN out[c] : out[c][i].type = "response" /\ out[c][i].requestId = creq[c]
    /\ TerminalCount(d) = 0

HasAck(c) ==
  \E i \in DOMAIN out[c] : out[c][i].type = "ack" /\ out[c][i].requestId = creq[c]

\* C4 (as claimed): an open connection whose waiting Ask has been acked
\* eventually receives a terminal message, unless it is closed (a restart
\* closes every connection).
C4_AckedAskGetsTerminal ==
  \A c \in Conns :
    (c \in DOMAIN clients /\ WaitingAsk(clients[c]) /\ HasAck(c))
      ~> (c \notin DOMAIN clients \/ TerminalCount(c) >= 1)

\* C6: a waiting Ask whose ref is attached eventually has a 'timeout' event,
\* unless an answer is recorded, the request is cancelled or the daemon
\* restarts first; no request ever has two 'timeout' events; and a request
\* whose only event is the timeout has status timeout.
C6_TimeoutFiresOnce ==
  /\ \A id \in Ids :
       (WaitingAsk(id) /\ Attached(id) /\ restarts = 0)
         ~> \/ EventCount(id, "timeout") = 1
            \/ EventCount(id, "response") >= 1
            \/ id \notin DOMAIN requests
            \/ restarts > 0
  /\ [](\A id \in Ids : EventCount(id, "timeout") <= 1)
  /\ [](\A id \in Ids :
          (id \in DOMAIN requests /\ emitted[id] = <<[ev |-> "timeout", response |-> ""]>>)
            => (Terminal(id) /\ responses[id].status = "timeout"))

\* C6 witness: the timer of an attached waiting Ask fired with no answer
C6_Witness ==
  \E id \in Ids :
    /\ WaitingAsk(id) /\ attachedAt[id] = 0 /\ restarts = 0
    /\ emitted[id] = <<[ev |-> "timeout", response |-> ""]>>
    /\ Terminal(id) /\ responses[id].status = "timeout"
    /\ armed[id] = 0

\* the positions of the acks written to connection c
Acks(c) == {i \in DOMAIN out[c] : out[c][i].type = "ack"}

\* connection c was written the error of a failed delivery
DeliveryFailed(c) == \E i \in DOMAIN out[c] : out[c][i].code = "INTERNAL_ERROR"

\* C11: a connection that submitted a Send or an Ask is written at most one
\* ack; an ack is written only once the delivery call has returned, and it
\* carries the request and the message id that call returned; once the call
\* has returned the ack is there; after a failed delivery there is no ack.
C11_OneAckAfterDelivery ==
  \A c \in Conns :
    creq[c] # NoId =>
      /\ Cardinality(Acks(c)) <= 1
      /\ \A i \in Acks(c) :
           /\ pc[c] = "done" /\ cref[c] # StrangerRef
           /\ out[c][i].requestId = creq[c]
           /\ out[c][i].discordMessageId = cref[c]
      /\ (restarts = 0 /\ pc[c] = "done" /\ cref[c] # StrangerRef) => Acks(c) # {}
      /\ DeliveryFailed(c) => Acks(c) = {}

\* C11 witness: one connection has its ack, the delivery for another failed
C11_Witness ==
  \E c, d \in Conns :
    /\ creq[c] # NoId /\ Acks(c) # {}
    /\ creq[d] # NoId /\ DeliveryFailed(d) /\ Acks(d) = {}

\* C12: when the delivery call has failed the connection has been written
\* an error, and the request is still in the store (unless it was cancelled
\* since) with no message id, no index entry and no timer.
C12_FailedDeliveryKeepsRequest ==
  \A c \in Conns :
    creq[c] # NoId =>
      /\ (restarts = 0 /\ pc[c] = "done" /\ cref[c] = StrangerRef)
           => \E i \in DOMAIN out[c] : out[c][i].type = "error"
      /\ (DeliveryFailed(c) /\ creq[c] \notin cancelled)
           => /\ creq[c] \in DOMAIN requests
              /\ requests[creq[c]].discordMessageId = StrangerRef
              /\ \A ref \in DOMAIN messageToRequest : messageToRequest[ref] # creq[c]
              /\ creq[c] \notin timers
              /\ armed[creq[c]] = 0

\* C12 witness: the delivery for an Ask failed, its connection is still
\* open, and the request is in the store
C12_Witness ==
  \E c \in Conns :
    /\ DeliveryFailed(c) /\ c \in DOMAIN clients
    /\ creq[c] \in DOMAIN requests /\ requests[creq[c]].type = "ask"

\* C13: a step that closes a connection (other than a restart) changes no
\* store, index, terminal binding or timer; and a step that records an
\* answer (it emits a 'response' event) for a request that no open
\* connection waits for stores it as answered and writes to no connection.
C13_CloseDoesNotCancel ==
  /\ [][\A c \in Conns :
          (c \in DOMAIN clients /\ c \notin DOMAIN clients' /\ restarts' = restarts)
            => UNCHANGED <<storeVars, emitted, out>>]_vars
  /\ [][\A id \in Ids :
          (/\ Len(emitted'[id]) = Len(emitted[id]) + 1
           /\ emitted'[id][Len(emitted'[id])].ev = "response"
           /\ \A c \in DOMAIN clients : clients[c] # id)
            => /\ id \in DOMAIN responses'
               /\ responses'[id] = [status |-> "answered",
                                    response |-> emitted'[id][Len(emitted'[id])].response]
               /\ out' = out]_vars

\* C13 witness: the connection of an acked, waiting Ask was closed with no
\* terminal message, and the request was answered afterwards
C13_Witness ==
  \E c \in Conns :
    /\ restarts = 0 /\ creq[c] # NoId /\ c \notin DOMAIN clients
    /\ WaitingAsk(creq[c]) /\ Attached(creq[c])
    /\ Acks(c) # {} /\ TerminalCount(c) = 0
    /\ Terminal(creq[c]) /\ responses[creq[c]].status = "answered"

\* C14: a restart leaves the request store and the index as they were, so
\* lookup(id) and lookupByExternalRef(ref) answer as before; and after a
\* restart the authorized user's reply to the notification of an attached,
\* uncancelled request is recorded as its answer (at once, or once the
\* recovery attempt it started has returned).
C14_StoresSurviveRestart ==
  /\ [][restarts' > restarts
          => (requests' = requests /\ messageToRequest' = messageToRequest)]_vars
  /\ [][(/\ restarts > 0
         /\ lastEv'.kind = "reply" /\ lastEv'.sender = "user"
         /\ lastEv'.ref \in DOMAIN posted
         /\ attachedAt[posted[lastEv'.ref].id] >= 0
         /\ posted[lastEv'.ref].id \notin cancelled)
          => LET id == posted[lastEv'.ref].id
             IN \/ /\ id \in DOMAIN responses'
                   /\ responses'[id].status = "answered"
                   /\ emitted'[id] # emitted[id]
                \/ \E x \in Texts : BagIn(Handler("resume", id, x), inflight')]_vars

\* C14 witness: after a restart the user's reply resolved to a waiting Ask
\* that was attached before the restart (its timer is gone), and its
\* handler is in the recovery attempt
C14_Witness ==
  /\ restarts > 0
  /\ lastEv.kind = "reply" /\ lastEv.sender = "user" /\ lastEv.ref \in DOMAIN posted
  /\ LET id == posted[lastEv.ref].id
     IN /\ WaitingAsk(id) /\ Attached(id) /\ requests[id].discordMessageId = lastEv.ref
        /\ id \notin DOMAIN responses /\ id \notin timers
        /\ \E x \in Texts : BagIn(Handler("resume", id, x), inflight)

\* the 'response' events emitted so far, over all requests
ResponseEvents ==
  Cardinality(UNION {{<<id, i>> : i \in {j \in DOMAIN emitted[id] :
                                           emitted[id][j].ev = "response"}} : id \in Ids})

\* C15 (as claimed): every reply or click that resolved to a request is
\* eventually recorded by setResponse: when the router has accepted n
\* events, eventually n 'response' events have been emitted.
C15_AnswerAlwaysRecorded ==
  \A n \in 1..MaxHuman : (human >= n) ~> (ResponseEvents >= n)

\* the token has exactly the shape req:<id>:<i> for a stored request with
\* options and an index i of one of them
ValidToken(parts) ==
  /\ Len(parts) = 3
  /\ parts[1] = "req"
  /\ parts[2] \in DOMAIN requests
  /\ \E i \in 0..(Len(requests[parts[2]].options) - 1) : parts[3] = toString(i)

\* C16 (as claimed): a button interaction whose token is valid starts the
\* handler that records options[i] for request id, and one whose token is
\* not valid changes no store, emits nothing and starts no handler.
C16_ButtonTokenMapsToOption ==
  [][\A parts \in Tokens :
       ButtonInteraction(parts)
         => IF ValidToken(parts)
            THEN \E i \in 0..(Len(requests[parts[2]].options) - 1) :
                   /\ parts[3] = toString(i)
                   /\ inflight' = inflight (+) SetToBag({Handler("update", parts[2],
                                                  requests[parts[2]].options[i + 1])})
            ELSE UNCHANGED <<storeVars, emitted, out, inflight>>]_vars

\* C17: a reply that is not the authorized user's direct message changes no
\* store, no timer and no connection, emits no event and starts no recovery
\* attempt, whatever message it refers to.
C17_UnauthorizedReplyIgnored ==
  [][(lastEv'.kind = "reply" /\ lastEv'.sender # "user")
       => UNCHANGED <<storeVars, emitted, out, clients, inflight>>]_vars

\* C17 witness: another account replied to the notification of a request
\* that is attached and unanswered
C17_Witness ==
  /\ lastEv.kind = "reply" /\ lastEv.sender = "other"
  /\ lastEv.ref \in DOMAIN messageToRequest
  /\ messageToRequest[lastEv.ref] \in DOMAIN requests
  /\ ~Terminal(messageToRequest[lastEv.ref])

\* C18: the request of a Send has no timer and no 'timeout' event, and its
\* connection is written no response and no timeout.
C18_SendNeverNotified ==
  \A c \in Conns :
    (creq[c] \in DOMAIN requests /\ requests[creq[c]].type = "send")
      => /\ creq[c] \notin timers
         /\ armed[creq[c]] = 0
         /\ EventCount(creq[c], "timeout") = 0
         /\ \A i \in DOMAIN out[c] : out[c][i].type \notin {"response", "timeout"}

\* C18 witness: the human's reply to the notification of a Send was recorded
\* while the connection that submitted it was still open
C18_Witness ==
  \E c \in Conns :
    /\ c \in DOMAIN clients
    /\ creq[c] \in DOMAIN requests /\ requests[creq[c]].type = "send"
    /\ Attached(creq[c])
    /\ Terminal(creq[c]) /\ responses[creq[c]].status = "answered"
    /\ Len(out[c]) = 1 /\ out[c][1].type = "ack"

\* C19: the ask CLI exits 0 only for the ack in noWait mode and for a
\* response it has read in wait mode, whose text it has printed; when it
\* exits for a timeout, an error, a failed connection or its own ceiling
\* the status is 1.
C19_ExitZeroOnlyOnAnswer ==
  /\ cli.pc = "exited" => cli.exit \in {0, 1}
  /\ cli.exit = 0
       => IF cli.noWait
          THEN /\ cli.cause = "ack"
               /\ \E i \in 1..cli.rd : cli.wire[i].type = "ack"
          ELSE /\ cli.cause = "response"
               /\ \E i \in 1..cli.rd :
                    /\ cli.wire[i].type = "response"
                    /\ cli.printedText = cli.wire[i].response
  /\ (cli.pc = "exited" /\ cli.cause \in {"timeout", "error", "connect", "ceiling"})
       => cli.exit = 1

\* C19 witness: a waiting CLI read the ack, then a timeout, and exited 1
C19_Witness ==
  /\ cli.pc = "exited" /\ ~cli.noWait /\ cli.exit = 1 /\ cli.cause = "timeout"
  /\ cli.rd = 2 /\ cli.wire[1].type = "ack" /\ cli.wire[2].type = "timeout"

\* C20 (as claimed): a waiting CLI that has read an ack and then a response
\* exits 0 with the answer printed, however the records were grouped into
\* reads.
C20_AckThenResponseExitsZero ==
  (/\ cli.pc = "exited" /\ ~cli.noWait
   /\ cli.rd >= 2 /\ cli.wire[1].type = "ack" /\ cli.wire[2].type = "response")
    => (cli.exit = 0 /\ cli.printedText = cli.wire[2].response)

\* C21: a CLI that has connected and waits for a message eventually exits,
\* whatever the daemon writes or does not write; and when it reads a
\* response, timeout or error while it waits for the result, it has exited
\* at the end of that turn.
C21_CliTerminates ==
  /\ (cli.pc \in {"waitAck", "waitResult"}) ~> (cli.pc = "exited")
  /\ [][(/\ cli.pc = "waitResult"
         /\ cli'.rd > cli.rd
         /\ \E i \in (cli.rd + 1)..(cli'.rd) : cli.wire[i].type \in TerminalTypes)
          => cli'.pc = "exited"]_vars

\* C21 witness: the daemon wrote nothing and the CLI exited at its ceiling
C21_Witness ==
  /\ cli.connects /\ cli.wire = << >>
  /\ cli.pc = "exited" /\ cli.cause = "ceiling" /\ cli.exit = 1

\* C22 (as claimed): a connection whose Status message has been handled has
\* been written a reply to it, an error with code NOT_FOUND or a status.
C22_StatusAlwaysAnswered ==
  \A c \in Conns :
    pc[c] = "status" =>
      \E i \in DOMAIN out[c] :
        \/ out[c][i].type = "status"
        \/ out[c][i].type = "error" /\ out[c][i].code = "NOT_FOUND"

\* C23: a line that is not JSON, has an unknown type or makes its handler
\* raise is answered with one error on its connection, leaves the
\* connection open and changes no store, timer or event; the message the
\* connection submits afterwards is handled as on a fresh connection (an
\* Ask or Send gets its request and, once delivered, its ack; a Cancel its
\* ack); a failed delivery is answered with an error and keeps the
\* connection open.
C23_BadLineAnsweredAndServed ==
  /\ [][\A c \in Conns :
          (pc[c] = "new" /\ pc'[c] = "new" /\ out'[c] # out[c]) =>
            /\ Len(out'[c]) = Len(out[c]) + 1
            /\ out'[c][Len(out'[c])].type = "error"
            /\ out'[c][Len(out'[c])].code
                  \in {"PARSE_ERROR", "UNKNOWN_TYPE", "INTERNAL_ERROR"}
            /\ c \in DOMAIN clients'
            /\ \A d \in Conns \ {c} : out'[d] = out[d]
            /\ UNCHANGED <<storeVars, emitted>>]_vars
  /\ [][\A c \in Conns :
          (pc[c] = "new" /\ pc'[c] = "sending") =>
            /\ creq'[c] \in DOMAIN requests' /\ creq'[c] \notin DOMAIN requests
            /\ c \in DOMAIN clients'
            /\ out'[c] = out[c]]_vars
  /\ [][\A c \in Conns :
          (pc[c] = "sending" /\ pc'[c] = "done") =>
            /\ out'[c] = Append(out[c], Msg("error", NoId, "", StrangerRef,
                                            "INTERNAL_ERROR"))
            /\ c \in DOMAIN clients'
            /\ UNCHANGED <<storeVars, emitted>>]_vars
  /\ [][\A c \in Conns :
          (pc[c] = "posted" /\ pc'[c] = "done") =>
            out'[c] = Append(out[c], Msg("ack", creq[c], "", cref[c], ""))]_vars
  /\ [][\A c \in Conns :
          (pc[c] = "new" /\ pc'[c] = "done") =>
            /\ Len(out'[c]) = Len(out[c]) + 1
            /\ out'[c][Len(out'[c])].type = "ack"]_vars

\* C23 witness: a connection wrote a line that is not JSON and a line of
\* unknown type, was answered an error for each, then submitted an Ask and
\* has its ack
C23_Witness ==
  \E c \in Conns :
    /\ Len(out[c]) = 3
    /\ out[c][1].code = "PARSE_ERROR" /\ out[c][2].code = "UNKNOWN_TYPE"
    /\ out[c][3].type = "ack" /\ out[c][3].requestId = creq[c]
    /\ creq[c] \in DOMAIN requests /\ requests[creq[c]].type = "ask"
    /\ c \in DOMAIN clients

\* C24 (as claimed): when an answer for a request was recorded before its
\* external reference was attached, no 'timeout' event is emitted for the
\* request and a response stored for it has status answered.
C24_AttachToleratesAnswer ==
  \A id \in Ids :
    (attachedAt[id] >= 1 /\ emitted[id][1].ev = "response") =>
      /\ EventCount(id, "timeout") = 0
      /\ id \in DOMAIN responses => responses[id].status = "answered"

\* C25 (as claimed): a request id has at most one scheduled timer callback,
\* and it has one only if the request exists, is an Ask without noWait, has
\* its external reference attached and has no terminal response.
C25_TimerOnlyForOutstandingAsk ==
  \A id \in Ids :
    /\ armed[id] <= 1
    /\ armed[id] > 0 =>
         /\ WaitingAsk(id)
         /\ Attached(id)
         /\ ~Terminal(id)

\* C26 (as claimed): a call of setDiscordMessageId that directly follows a
\* call with the same request id and the same ref changes no store and
\* leaves the timers as they are: one scheduled callback at most.
C26_AttachIdempotent ==
  [][\A id \in Ids, ref \in ApiRefs :
       (lastEv = AttachCall(id, ref) /\ lastEv' = AttachCall(id, ref)) =>
         /\ UNCHANGED <<requests, responses, messageToRequest, requestToTerminal,
                        diskPending, diskSessions, timers>>
         /\ armed'[id] = armed[id]
         /\ armed'[id] <= 1]_vars

\* C27 (as claimed): a step never replaces the discordMessageId a request
\* has with a different value.
C27_MessageIdNeverChanges ==
  [][\A id \in Ids :
       (id \in DOMAIN requests /\ id \in DOMAIN requests'
        /\ requests[id].discordMessageId # StrangerRef) =>
         requests'[id].discordMessageId = requests[id].discordMessageId]_vars

\* C28 (as claimed): once cleanup(id) has run, the request store, the
\* response store, the reference index and the terminal bindings hold no
\* entry for id and no timer is scheduled for id, in every later state, and
\* no later step emits an event for id.
C28_NothingAfterCleanup ==
  /\ [](\A id \in cancelled \cap Ids :
          /\ id \notin DOMAIN requests
          /\ id \notin DOMAIN responses
          /\ id \notin DOMAIN requestToTerminal
          /\ \A ref \in DOMAIN messageToRequest : messageToRequest[ref] # id
          /\ id \notin timers /\ armed[id] = 0)
  /\ [][\A id \in cancelled \cap Ids : emitted'[id] = emitted[id]]_vars

\* the reference index without the entries of request id
IndexWithout(index, id) ==
  [ref \in {r \in DOMAIN index : index[r] # id} |-> index[ref]]

\* C29: a Cancel, also one for an id that has no request or that no
\* connection waits on, is answered with one ack for that id and no error,
\* and leaves the entries of every other request in the four structures and
\* every other timer as they were.
C29_CancelIsNeverAnError ==
  [][\A c \in Conns :
       (pc[c] = "new" /\ pc'[c] = "done") =>
         LET id == out'[c][Len(out'[c])].requestId
         IN /\ out'[c] = Append(out[c], Msg("ack", id, "", StrangerRef, ""))
            /\ \A i \in DOMAIN out'[c] : out'[c][i].type # "error"
            /\ Del(requests', id) = Del(requests, id)
            /\ Del(responses', id) = Del(responses, id)
            /\ Del(requestToTerminal', id) = Del(requestToTerminal, id)
            /\ IndexWithout(messageToRequest', id) = IndexWithout(messageToRequest, id)
            /\ timers' \ {id} = timers \ {id}
            /\ \A j \in Ids \ {id} : armed'[j] = armed[j]
            /\ \A d \in Conns \ {c} : out'[d] = out[d]]_vars

\* C29 witness: a Cancel for an id no request has was acked while another
\* request, whose connection has closed, is outstanding with its timer armed
C29_Witness ==
  \E c, d \in Conns :
    /\ c # d
    /\ creq[c] \in DOMAIN requests /\ armed[creq[c]] = 1 /\ c \notin DOMAIN clients
    /\ out[d] = <<Msg("ack", NoId, "", StrangerRef, "")>>

\* C30 (as claimed): every response in the response store belongs to a
\* request in the request store.
C30_ResponseHasRequest ==
  \A id \in DOMAIN responses : id \in DOMAIN requests

\* C31: between the coordinator's operations pending.json holds the request
\* and response stores and sessions.json holds the reference index and the
\* terminal bindings, exactly as they are in memory.
C31_StoresWrittenThrough ==
  /\ diskPending = [requests |-> requests, responses |-> responses]
  /\ diskSessions = [messageToRequest |-> messageToRequest,
                     requestToTerminal |-> requestToTerminal]

\* C31 witness: a request was created, attached, its terminal binding
\* marked inactive and its answer recorded, and another request timed out
C31_Witness ==
  \E i, j \in Ids :
    /\ i # j
    /\ Attached(i) /\ i \in DOMAIN responses /\ responses[i].status = "answered"
    /\ i \in DOMAIN requestToTerminal /\ ~requestToTerminal[i].active
    /\ Attached(j) /\ j \in DOMAIN responses /\ responses[j].status = "timeout"

\* C32: a daemon that is started on a missing or unparsable pending.json
\* (sessions.json) has empty request and response stores (an empty index and
\* empty terminal bindings), and it starts; it then handles an Ask as usual:
\* the request is created and saved, which replaces the damaged file, and
\* when the delivery returns the reference is attached and the ack written.
C32_DamagedFileLoadsEmpty ==
  /\ [](Damaged(diskPending) => requests = EmptyMap /\ responses = EmptyMap)
  /\ [](Damaged(diskSessions) =>
          messageToRequest = EmptyMap /\ requestToTerminal = EmptyMap)
  /\ [][restarts' > restarts => (timers' = {} /\ clients' = EmptyMap)]_vars
  /\ [][\A c \in Conns :
          (restarts > 0 /\ restarts' = restarts
           /\ pc[c] = "new" /\ pc'[c] = "sending") =>
            /\ creq'[c] \in DOMAIN requests' /\ creq'[c] \in DOMAIN requestToTerminal'
            /\ diskPending' = [requests |-> requests', responses |-> responses']
            /\ diskSessions' = [messageToRequest |-> messageToRequest',
                                 requestToTerminal |-> requestToTerminal']]_vars
  /\ [][\A c \in Conns :
          (restarts > 0 /\ restarts' = restarts
           /\ pc[c] = "posted" /\ pc'[c] = "done"
           /\ creq[c] \in DOMAIN requests) =>
            /\ requests'[creq[c]].discordMessageId = cref[c]
            /\ messageToRequest'[cref[c]] = creq[c]
            /\ out'[c] = Append(out[c], Msg("ack", creq[c], "", cref[c], ""))]_vars

\* C32 witness: a request was lost with an unparsable pending.json and a
\* missing sessions.json; the restarted daemon has created, delivered and
\* acked a new Ask and armed its timer
C32_Witness ==
  \E c, d \in Conns :
    /\ restarts > 0
    /\ creq[c] # NoId /\ creq[c] \notin DOMAIN requests /\ creq[c] \notin cancelled
    /\ creq[d] \in DOMAIN requests /\ Attached(creq[d]) /\ armed[creq[d]] = 1
    /\ Acks(d) # {} /\ d \in DOMAIN clients
    /\ DOMAIN messageToRequest = {cref[d]}

\* a handler entered resumeAndInject in this step
Resumes(h) == h.stage = "resume" /\ CopiesIn(h, inflight') > CopiesIn(h, inflight)

\* this step ran processResponse for request id with isProcessAlive
\* answering alive
Processes(id, x, alive) ==
  \/ /\ lastEv'.kind = "reply"
     /\ getRequestByMessageId(Cur, lastEv'.ref) = id
     /\ HumanReply(lastEv'.ref, x, lastEv'.sender, alive)
  \/ /\ BagIn(Handler("update", id, x), inflight)
     /\ UpdateReturn(Handler("update", id, x), alive)

\* C33: a handler enters resumeAndInject only in a step that processes an
\* answer for a request whose terminal binding exists and whose process
\* isProcessAlive reports dead; a step that processes an answer while the
\* process is alive, or for a request without a terminal binding, starts no
\* resume and leaves the terminal bindings as they are.
C33_ResumeOnlyWhenDead ==
  /\ [][\A h \in Handlers :
          Resumes(h) =>
            /\ h.id \in DOMAIN requestToTerminal
            /\ Processes(h.id, h.text, FALSE)]_vars
  /\ [][\A id \in Ids, x \in Texts \cup {"Yes", "No"} :
          Processes(id, x, TRUE) =>
            /\ \A h \in Handlers : ~Resumes(h)
            /\ requestToTerminal' = requestToTerminal]_vars
  /\ [][\A id \in Ids, x \in Texts \cup {"Yes", "No"} :
          (id \notin DOMAIN requestToTerminal /\ Processes(id, x, FALSE)) =>
            /\ \A h \in Handlers : ~Resumes(h)
            /\ requestToTerminal' = requestToTerminal]_vars

\* C33 witness: the user's reply to a request with a session id was
\* processed while its process was alive: the answer is recorded, the
\* binding is still active and nothing is suspended
C33_Witness ==
  /\ lastEv.kind = "reply" /\ lastEv.ref \in DOMAIN messageToRequest
  /\ LET id == messageToRequest[lastEv.ref]
     IN /\ id \in DOMAIN responses /\ responses[id].status = "answered"
        /\ id \in DOMAIN requestToTerminal
        /\ requestToTerminal[id].hasSession /\ requestToTerminal[id].active
  /\ inflight = EmptyBag

\* C34: the reference index and the requests agree: every index entry
\* ref -> id points to an existing request whose discordMessageId is ref,
\* and every request that carries a ref is the index entry of that ref.
C34_IndexAgreesWithRequests ==
  /\ \A ref \in DOMAIN messageToRequest :
       /\ messageToRequest[ref] \in DOMAIN requests
       /\ requests[messageToRequest[ref]].discordMessageId = ref
  /\ \A id \in DOMAIN requests :
       requests[id].discordMessageId # StrangerRef =>
         /\ requests[id].discordMessageId \in DOMAIN messageToRequest
         /\ messageToRequest[requests[id].discordMessageId] = id

\* C34 witness: a request was attached, which indexed its ref, and was then
\* cleaned up: its index entry is gone with it
C34_Witness ==
  \E id \in cancelled \cap Ids :
    /\ attachedAt[id] >= 0 /\ id \notin DOMAIN requests
    /\ \E ref \in DOMAIN posted : posted[ref].id = id /\ ref \notin DOMAIN messageToRequest

\* C35 (as claimed): while only accounts other than the configured user
\* reply and click, no answer is recorded: no request has a 'response'
\* event or a response with status answered.
C35_OnlyAuthorizedClickAnswers ==
  \A id \in Ids :
    /\ EventCount(id, "response") = 0
    /\ id \in DOMAIN responses => responses[id].status # "answered"

\* C36 (as claimed): the timeout of every Ask request is a timeout given in
\* an Ask message or the configured default, and it is at most the
\* configured maximum maxAsk.
C36_TimeoutAtMostMaxAsk ==
  \A id \in DOMAIN requests :
    requests[id].type = "ask" =>
      /\ requests[id].timeout \in (AskTimeouts \ {0}) \cup {DefaultAsk}
      /\ requests[id].timeout <= MaxAsk

====
